---- MODULE Spec2Model ----
(***************************************************************************)
(* Allocator bridge of stb_truetype_wrapper.c.                             *)
(*                                                                         *)
(* The wrapper defines the two allocation hooks of stb_truetype,           *)
(*     #define STBTT_malloc(x,u)  zig_stb_alloc(x)                         *)
(*     #define STBTT_free(x,u)    zig_stb_free(x)                          *)
(* and forwards them to two extern functions implemented on the Zig side,  *)
(* which resolve a thread-local allocator.  The Zig side is only declared  *)
(* in the C file; it is modelled here as a byte-budget allocator with      *)
(* per-thread bindings, as the specification describes it.                 *)
(***************************************************************************)
EXTENDS Integers, Sequences, FiniteSets

(* ---- bounds of the model ---- *)
MaxBlocks == 2            \* addresses a binding can hand out
MaxCalls  == 4            \* hook calls issued in one run (all threads)
Budget    == 1024         \* byte budget of each ambient allocator

NULL == 0                 \* the failure sentinel / null reference
Threads == {1, 2}
Refs == 1..MaxBlocks
Pointers == {NULL} \cup Refs
Sizes == {0, 424, 600}
\* stb_truetype passes NULL as user context; the macro accepts any pointer
UserContexts == {NULL, 1}
\* what the allocator does with a free of a reference that is not live
Policies == {"trap", "undefined"}

VARIABLES
    alloc,       \* run 1: thread -> state of that thread's ambient allocator
    hookLog,     \* run 1: thread -> hook calls issued by the library, with results
    usedBefore,  \* run 1: thread -> used bytes just before its last allocate hook
    ctxDiffer,   \* whether run 1 and run 2 passed different user contexts to the last hook call
    alloc2,      \* run 2: same hook calls, other user contexts
    ret2         \* run 2: thread -> value last returned to the library

vars == <<alloc, hookLog, usedBefore, ctxDiffer, alloc2, ret2>>

(* ---- the ambient allocator (Zig side) ---- *)

EmptyAllocator(policy) ==
    [blocks |-> {}, used |-> 0, count |-> 0, trapped |-> FALSE,
     corrupt |-> FALSE, policy |-> policy, calls |-> <<>>]

Live(A) == {b[1] : b \in A.blocks}

SizeOf(A, p) == (CHOOSE b \in A.blocks : b[1] = p)[2]

LowestFree(A) ==
    CHOOSE p \in Refs \ Live(A) : \A q \in Refs \ Live(A) : p <= q

\* allocate on the calling thread's binding: a fresh block of `size` bytes
\* while the budget allows it, the failure sentinel otherwise
zig_stb_alloc(G, t, size) ==
    LET A    == G[t]
        ok   == A.used + size <= Budget /\ Refs \ Live(A) # {}
        r    == IF ok THEN LowestFree(A) ELSE NULL
        A1   == IF ok
                THEN [A EXCEPT !.blocks = @ \cup {<<r, size>>},
                               !.used = @ + size, !.count = @ + 1]
                ELSE A
        A2   == [A1 EXCEPT !.calls = Append(@, [op |-> "alloc", arg |-> size, ret |-> r])]
    IN  [state |-> [G EXCEPT ![t] = A2], ret |-> r]

\* free on the calling thread's binding: null is tolerated, a live block is
\* released, anything else is a double/invalid free handled per policy
zig_stb_free(G, t, p) ==
    LET A  == G[t]
        L  == [A EXCEPT !.calls = Append(@, [op |-> "free", arg |-> p, ret |-> NULL])]
        A2 == IF p = NULL THEN L
              ELSE IF p \in Live(A)
                   THEN [L EXCEPT !.blocks = @ \ {<<p, SizeOf(A, p)>>},
                                  !.used = @ - SizeOf(A, p), !.count = @ - 1]
              ELSE IF A.policy = "trap"
                   THEN [L EXCEPT !.trapped = TRUE]
              ELSE [L EXCEPT !.corrupt = TRUE, !.count = @ - 1]
    IN  [state |-> [G EXCEPT ![t] = A2], ret |-> NULL]

(* ---- the bridge: the two hook macros ---- *)

\* a bridge that retries a failed allocation once
STBTT_malloc_retry(G, t, x, u) ==
    LET r == zig_stb_alloc(G, t, x)
    IN  IF r.ret = NULL THEN zig_stb_alloc(r.state, t, x) ELSE r

\* a bridge that passes the macro's arguments in the wrong order
STBTT_malloc_swapped(G, t, x, u) == zig_stb_alloc(G, t, u)

\* a bridge that takes the user context for the allocator handle
STBTT_malloc_ctx(G, t, x, u) ==
    zig_stb_alloc(G, IF u \in Threads THEN u ELSE t, x)

\* a bridge with a zero-size policy of its own
STBTT_malloc_zero(G, t, x, u) ==
    IF x = 0 THEN [state |-> G, ret |-> NULL] ELSE zig_stb_alloc(G, t, x)

STBTT_malloc(G, t, x, u) == zig_stb_alloc(G, t, x)

\* a bridge that passes the macro's arguments in the wrong order
STBTT_free_swapped(G, t, x, u) == zig_stb_free(G, t, u)

\* a bridge whose free hook expands to nothing
STBTT_free_leak(G, t, x, u) == [state |-> G, ret |-> NULL]

\* a bridge that checks for null and skips the call
STBTT_free_nullcheck(G, t, x, u) ==
    IF x = NULL THEN [state |-> G, ret |-> NULL] ELSE zig_stb_free(G, t, x)

\* a bridge that swallows a free of a reference that is not outstanding
STBTT_free_masked(G, t, x, u) ==
    IF x # NULL /\ x \notin Live(G[t])
    THEN [state |-> G, ret |-> NULL] ELSE zig_stb_free(G, t, x)

STBTT_free(G, t, x, u) == zig_stb_free(G, t, x)

(* ---- the library calling the hooks ---- *)

TotalCalls == Len(hookLog[1]) + Len(hookLog[2])

Running == \A t \in Threads : ~alloc[t].trapped /\ ~alloc2[t].trapped

Init ==
    \E p \in Policies :
        /\ alloc = [t \in Threads |-> EmptyAllocator(p)]
        /\ alloc2 = [t \in Threads |-> EmptyAllocator(p)]
        /\ hookLog = [t \in Threads |-> <<>>]
        /\ usedBefore = [t \in Threads |-> 0]
        /\ ctxDiffer = FALSE
        /\ ret2 = [t \in Threads |-> NULL]

\* thread t of the library evaluates STBTT_malloc(x, u); run 2 evaluates
\* the same hook with user context u2
Malloc(t, x, u, u2) ==
    /\ Running
    /\ TotalCalls < MaxCalls
    /\ Cardinality(alloc[t].blocks) < MaxBlocks
    /\ LET r  == STBTT_malloc(alloc, t, x, u)
           r2 == STBTT_malloc(alloc2, t, x, u2)
       IN  /\ alloc' = r.state
           /\ hookLog' = [hookLog EXCEPT
                  ![t] = Append(@, [op |-> "malloc", arg |-> x, ret |-> r.ret])]
           /\ usedBefore' = [usedBefore EXCEPT ![t] = alloc[t].used]
           /\ alloc2' = r2.state
           /\ ret2' = [ret2 EXCEPT ![t] = r2.ret]
    /\ ctxDiffer' = (u # u2)

\* thread t of the library evaluates STBTT_free(p, u)
Free(t, p, u, u2) ==
    /\ Running
    /\ TotalCalls < MaxCalls
    /\ LET r  == STBTT_free(alloc, t, p, u)
           r2 == STBTT_free(alloc2, t, p, u2)
       IN  /\ alloc' = r.state
           /\ hookLog' = [hookLog EXCEPT
                  ![t] = Append(@, [op |-> "free", arg |-> p, ret |-> r.ret])]
           /\ alloc2' = r2.state
           /\ ret2' = [ret2 EXCEPT ![t] = r2.ret]
    /\ ctxDiffer' = (u # u2)
    /\ UNCHANGED usedBefore

Next ==
    \/ \E t \in Threads, x \in Sizes, u \in UserContexts, u2 \in UserContexts :
           Malloc(t, x, u, u2)
    \/ \E t \in Threads, p \in Pointers, u \in UserContexts, u2 \in UserContexts :
           Free(t, p, u, u2)

Spec == Init /\ [][Next]_vars

(* ---- vocabulary of the properties ---- *)

Last(s) == s[Len(s)]

\* the step is a hook call of thread t; NewCall(t) is the call
HookStep(t) == Len(hookLog'[t]) = Len(hookLog[t]) + 1
NewCall(t) == hookLog'[t][Len(hookLog'[t])]
MallocStep(t) == HookStep(t) /\ NewCall(t).op = "malloc"
FreeStep(t) == HookStep(t) /\ NewCall(t).op = "free"

AllocatorOp(op) == IF op = "malloc" THEN "alloc" ELSE "free"
AsAllocatorCall(e) == [op |-> AllocatorOp(e.op), arg |-> e.arg, ret |-> e.ret]

\* the binding of thread t after that thread issued the hook calls of
\* `log` on its own, from a fresh allocator with the given policy
RECURSIVE Replay(_, _, _, _)
Replay(G, t, log, i) ==
    IF i > Len(log) THEN G[t]
    ELSE IF log[i].op = "malloc"
         THEN Replay(STBTT_malloc(G, t, log[i].arg, NULL).state, t, log, i + 1)
         ELSE Replay(STBTT_free(G, t, log[i].arg, NULL).state, t, log, i + 1)

RunAlone(t, policy, log) ==
    Replay([o \in Threads |-> EmptyAllocator(policy)], t, log, 1)

(* ---- C1 ---- *)
\* C1: an allocate hook call makes exactly one call to the allocator's
\* allocate operation, with the same size, and returns exactly the value
\* that call returned (the null sentinel included): no retry, no wrapping.
C1_MallocForwardsOnce ==
    [][\A t \in Threads : MallocStep(t) =>
          alloc'[t].calls = Append(alloc[t].calls, AsAllocatorCall(NewCall(t)))]_vars

\* a failed allocation was forwarded once and its sentinel returned
C1_Witness ==
    \E t \in Threads :
        /\ hookLog[t] # <<>>
        /\ Last(hookLog[t]).op = "malloc" /\ Last(hookLog[t]).ret = NULL
        /\ Len(alloc[t].calls) = Len(hookLog[t])
        /\ Last(alloc[t].calls).ret = NULL

(* ---- C2 ---- *)
\* C2: the free hook called with a null reference does not crash and leaves
\* the outstanding count, the outstanding bytes and the blocks unchanged.
C2_FreeNullNoOp ==
    [][\A t \in Threads : (FreeStep(t) /\ NewCall(t).arg = NULL) =>
          /\ alloc'[t].count = alloc[t].count
          /\ alloc'[t].used = alloc[t].used
          /\ alloc'[t].blocks = alloc[t].blocks
          /\ ~alloc'[t].trapped /\ alloc'[t].corrupt = alloc[t].corrupt]_vars

\* free(null) was called while a block was outstanding
C2_Witness ==
    \E t \in Threads :
        /\ hookLog[t] # <<>>
        /\ Last(hookLog[t]).op = "free" /\ Last(hookLog[t]).arg = NULL
        /\ Last(alloc[t].calls).op = "free"
        /\ alloc[t].count > 0 /\ alloc[t].used > 0

(* ---- C3 ---- *)
\* C3: allocate(s) returns a fresh non-null reference to a block of at
\* least s bytes, or the sentinel when the budget is exhausted; it never
\* traps.
C3_AllocateContract ==
    [][\A t \in Threads : MallocStep(t) =>
          LET e == NewCall(t)
          IN  /\ ~alloc'[t].trapped
              /\ e.ret # NULL =>
                    /\ e.ret \notin Live(alloc[t])
                    /\ \E b \in alloc'[t].blocks : b[1] = e.ret /\ b[2] >= e.arg
              /\ e.ret = NULL => alloc[t].used + e.arg > Budget]_vars

\* one allocation of 600 bytes succeeded and a later one hit the budget
C3_Witness ==
    \E t \in Threads :
        /\ Len(hookLog[t]) >= 2
        /\ hookLog[t][1].op = "malloc" /\ hookLog[t][1].arg = 600
        /\ hookLog[t][1].ret # NULL
        /\ Last(hookLog[t]).op = "malloc" /\ Last(hookLog[t]).ret = NULL
        /\ <<hookLog[t][1].ret, 600>> \in alloc[t].blocks

(* ---- C4 ---- *)
\* C4: allocate(s) directly followed by one free of the returned reference
\* leaves the outstanding bytes at their value before the allocate (also
\* when the allocate failed, and for s = 0).
C4_RoundTrip ==
    [][\A t \in Threads :
          (/\ FreeStep(t)
           /\ hookLog[t] # <<>>
           /\ Last(hookLog[t]).op = "malloc"
           /\ NewCall(t).arg = Last(hookLog[t]).ret)
          => alloc'[t].used = usedBefore[t]]_vars

\* a successful allocation of 424 bytes on top of an outstanding block was
\* freed again
C4_Witness ==
    \E t \in Threads :
        LET n == Len(hookLog[t])
        IN  /\ n >= 3
            /\ hookLog[t][n - 1].op = "malloc" /\ hookLog[t][n - 1].arg = 424
            /\ hookLog[t][n - 1].ret # NULL
            /\ hookLog[t][n].op = "free" /\ hookLog[t][n].arg = hookLog[t][n - 1].ret
            /\ usedBefore[t] > 0 /\ alloc[t].used = usedBefore[t]

(* ---- C5 ---- *)
\* the calls of the scenario: allocate(600), allocate(600), free(first), allocate(600)
ScenarioPrefix(log, n) ==
    /\ Len(log) >= n
    /\ n >= 1 => log[1].op = "malloc" /\ log[1].arg = 600
    /\ n >= 2 => log[2].op = "malloc" /\ log[2].arg = 600
    /\ n >= 3 => log[3].op = "free" /\ log[3].arg = log[1].ret
    /\ n >= 4 => log[4].op = "malloc" /\ log[4].arg = 600

\* C5: used bytes never exceed the budget, an allocate that returns the
\* sentinel does not change used bytes, and on a 1,024-byte budget the
\* sequence allocate(600), allocate(600), free(first), allocate(600) gives
\* success (600 used), sentinel (600 used), release, success (600 used).
C5_BudgetScenario ==
    \A t \in Threads :
        LET log == hookLog[t]
            n   == Len(log)
        IN  /\ alloc[t].used <= Budget
            /\ (n >= 1 /\ Last(log).op = "malloc" /\ Last(log).ret = NULL)
                  => alloc[t].used = usedBefore[t]
            /\ ScenarioPrefix(log, 1) => log[1].ret # NULL /\ (n = 1 => alloc[t].used = 600)
            /\ ScenarioPrefix(log, 2) => log[2].ret = NULL /\ (n = 2 => alloc[t].used = 600)
            /\ ScenarioPrefix(log, 3) => (n = 3 => alloc[t].used = 0)
            /\ ScenarioPrefix(log, 4) => log[4].ret # NULL /\ (n = 4 => alloc[t].used = 600)

\* the whole scenario has run on one thread
C5_Witness ==
    \E t \in Threads :
        /\ Len(hookLog[t]) = 4 /\ ScenarioPrefix(hookLog[t], 4)
        /\ hookLog[t][2].ret = NULL /\ hookLog[t][4].ret # NULL
        /\ alloc[t].used = 600

(* ---- C6 ---- *)
\* C6: under every interleaving, the binding of each thread is exactly what
\* that thread's own hook calls produce when it runs alone; calls of the
\* other thread leave no trace in it.
C6_Isolation ==
    \A t \in Threads : alloc[t] = RunAlone(t, alloc[t].policy, hookLog[t])

\* both threads completed an allocate/free cycle
C6_Witness ==
    \A t \in Threads :
        /\ Len(hookLog[t]) = 2
        /\ hookLog[t][1].op = "malloc" /\ hookLog[t][1].ret # NULL
        /\ hookLog[t][1].arg > 0
        /\ hookLog[t][2].op = "free" /\ hookLog[t][2].arg = hookLog[t][1].ret
        /\ alloc[t].count = 0 /\ alloc[t].used = 0 /\ Len(alloc[t].calls) = 2

(* ---- C7 ---- *)
\* C7: two runs issuing the same hook calls with different user contexts
\* make the same allocator calls, return the same values and end in the
\* same allocator state.
C7_ContextIgnored ==
    /\ alloc2 = alloc
    /\ \A t \in Threads : hookLog[t] # <<>> => ret2[t] = Last(hookLog[t]).ret

\* the two runs passed different contexts to a call, with a block outstanding
C7_Witness ==
    /\ ctxDiffer
    /\ \E t \in Threads : alloc[t].blocks # {} /\ alloc2[t].blocks # {}

(* ---- C8 ---- *)
\* a reference that was freed before and is not outstanding now
FreedBefore(t, p) ==
    /\ p # NULL
    /\ p \notin Live(alloc[t])
    /\ \E i \in 1..Len(hookLog[t]) : hookLog[t][i].op = "free" /\ hookLog[t][i].arg = p

\* C8: a second free of the same reference is forwarded unchanged; the
\* outcome is the allocator's own double-free outcome (trap, or corrupted
\* accounting), neither suppressed nor added to by the bridge.
C8_DoubleFreeNotMasked ==
    [][\A t \in Threads : (FreeStep(t) /\ FreedBefore(t, NewCall(t).arg)) =>
          /\ alloc'[t].calls = Append(alloc[t].calls, AsAllocatorCall(NewCall(t)))
          /\ alloc' = zig_stb_free(alloc, t, NewCall(t).arg).state
          /\ alloc[t].policy = "trap" => alloc'[t].trapped
          /\ alloc[t].policy = "undefined" =>
                alloc'[t].corrupt /\ alloc'[t].count = alloc[t].count - 1]_vars

\* a block was allocated and freed twice in a row, and the allocator trapped
C8_Witness ==
    \E t \in Threads :
        LET n == Len(hookLog[t])
        IN  /\ n >= 3
            /\ hookLog[t][n - 2].op = "malloc" /\ hookLog[t][n - 2].ret # NULL
            /\ hookLog[t][n - 1].op = "free" /\ hookLog[t][n - 1].arg = hookLog[t][n - 2].ret
            /\ hookLog[t][n].op = "free" /\ hookLog[t][n].arg = hookLog[t][n - 2].ret
            /\ alloc[t].trapped

(* ---- C9 ---- *)
\* C9: the allocator receives exactly the hook calls the library issued,
\* in the same order, one allocator call per hook call, with the same size
\* or reference and the same result.
C9_CallsMirrorHooks ==
    \A t \in Threads :
        /\ Len(alloc[t].calls) = Len(hookLog[t])
        /\ \A i \in 1..Len(hookLog[t]) :
              alloc[t].calls[i] = AsAllocatorCall(hookLog[t][i])

\* a thread issued at least three hook calls of both kinds
C9_Witness ==
    \E t \in Threads :
        /\ Len(hookLog[t]) >= 3
        /\ \E i, j \in 1..Len(hookLog[t]) :
              hookLog[t][i].op = "malloc" /\ hookLog[t][j].op = "free"
        /\ Len(alloc[t].calls) >= 3

(* ---- C10 ---- *)
\* C10: the free hook calls the allocator's free even for a null reference
\* and the allocate hook calls the allocator's allocate even for size 0;
\* the result of the zero-byte allocation is the allocator's.
C10_NoPolicyOfItsOwn ==
    [][\A t \in Threads :
          /\ (FreeStep(t) /\ NewCall(t).arg = NULL) =>
                /\ Len(alloc'[t].calls) = Len(alloc[t].calls) + 1
                /\ Last(alloc'[t].calls) = [op |-> "free", arg |-> NULL, ret |-> NULL]
          /\ (MallocStep(t) /\ NewCall(t).arg = 0) =>
                /\ Len(alloc'[t].calls) = Len(alloc[t].calls) + 1
                /\ Last(alloc'[t].calls).op = "alloc"
                /\ Last(alloc'[t].calls).arg = 0
                /\ Last(alloc'[t].calls).ret = NewCall(t).ret]_vars

\* the allocator received a free(null) and a zero-byte allocate
C10_Witness ==
    \E t \in Threads :
        /\ \E i \in 1..Len(alloc[t].calls) :
              alloc[t].calls[i] = [op |-> "free", arg |-> NULL, ret |-> NULL]
        /\ \E i \in 1..Len(alloc[t].calls) :
              alloc[t].calls[i].op = "alloc" /\ alloc[t].calls[i].arg = 0
        /\ \E i \in 1..Len(hookLog[t]) :
              hookLog[t][i].op = "malloc" /\ hookLog[t][i].arg = 0

====
